---- MODULE Spec2Model ----
(***************************************************************************)
(* A model of src/main/utils.ts of debugtron:                              *)
(*   - startDebugging and the stream / close / error callbacks it          *)
(*     registers, driving the instance registry of the redux store;        *)
(*   - getElectronApps / getAppInfo (the discovery scan);                  *)
(*   - the entry-parsing loop of readIcnsAsImageUri.                       *)
(***************************************************************************)
EXTENDS Integers, Sequences, FiniteSets, TLC

(***************************************************************************)
(* Bounds of the model.                                                    *)
(***************************************************************************)
MaxLaunches == 2
MaxChunks == 2

(***************************************************************************)
(* Text.  A chunk is a Buffer; it is modelled as a sequence of pieces.  A  *)
(* piece is a run of bytes: plain text, a port announcement (prefix,       *)
(* digits, optional trailing slash) or a byte sequence that is not valid   *)
(* UTF-8.                                                                  *)
(***************************************************************************)
NodePrefix == "Debugger listening on ws://127.0.0.1:"
DevPrefix == "DevTools listening on ws://127.0.0.1:"

Txt(s) == [k |-> "txt", pre |-> s, digits |-> "", slash |-> FALSE]
Ann(pre, digits, slash) == [k |-> "ann", pre |-> pre, digits |-> digits, slash |-> slash]
BadBytes == [k |-> "bad", pre |-> "\\xff", digits |-> "", slash |-> FALSE]
Replacement == Txt("\\ufffd")

\* The chunks the child process may write.
Chunks ==
  { <<Txt("hello"), Ann(NodePrefix, "9230", FALSE), BadBytes>>,
    <<Ann(NodePrefix, "9229", TRUE), Txt("abc")>>,
    <<Ann(DevPrefix, "9222", TRUE)>>,
    <<Ann(DevPrefix, "9223", TRUE), Ann(NodePrefix, "0", TRUE)>> }

\* chunk.toString(): UTF-8 decoding; an invalid byte sequence decodes to U+FFFD.
ChunkToString(chunk) ==
  [n \in 1..Len(chunk) |-> IF chunk[n].k = "bad" THEN Replacement ELSE chunk[n]]

NoMatch == "<null>"

\* re.exec(data) for /<prefix>(\d+)\//: the capture of the leftmost match.
RECURSIVE ExecFrom(_, _, _)
ExecFrom(pre, data, n) ==
  IF n > Len(data) THEN NoMatch
  ELSE IF data[n].k = "ann" /\ data[n].pre = pre /\ data[n].digits # "" /\ data[n].slash
       THEN data[n].digits
       ELSE ExecFrom(pre, data, n + 1)

\* /Debugger listening on ws:\/\/127.0.0.1:(\d+)\//.exec(data)
NodeExec(data) == ExecFrom(NodePrefix, data, 1)

WindowExec_NodePattern(data) == ExecFrom(NodePrefix, data, 1)
\* /DevTools listening on ws:\/\/127.0.0.1:(\d+)\//.exec(data)
WindowExec(data) == ExecFrom(DevPrefix, data, 1)

(***************************************************************************)
(* The store: the instance registry and its five operations.               *)
(***************************************************************************)
Ids == 1..MaxLaunches
Apps == {"com.acme.app"}
Unset == "<undefined>"

VARIABLES
  instanceInfo,  \* store.getState().instanceInfo: id -> instance record
  generated,     \* the ids v4() has returned so far
  proc,          \* one record per call of startDebugging, in call order
  ops,           \* id -> the operations dispatched for that id, in order
  handled,       \* launch -> the chunks its data handlers were invoked with
  threw          \* whether a data handler has thrown on a missing entry

dvars == <<instanceInfo, generated, proc, ops, handled, threw>>

\* A store state: the registry and the trace of dispatched operations.
Store(info, trace) == [info |-> info, trace |-> trace]

Logged(st, id, op) == [st.trace EXCEPT ![id] = Append(@, op)]

\* addInstance(id, appId): a new entry with unset ports and an empty log.
AddInstance(st, id, appId) ==
  Store([j \in DOMAIN st.info \cup {id} |->
           IF j = id
           THEN [appId |-> appId, nodePort |-> Unset, windowPort |-> Unset, log |-> <<>>]
           ELSE st.info[j]],
        Logged(st, id, "addInstance"))

\* updateNodePort(id, port): sets the field of the entry.
UpdateNodePort(st, id, port) ==
  Store(IF id \in DOMAIN st.info
        THEN [st.info EXCEPT ![id].nodePort = port] ELSE st.info,
        Logged(st, id, "updateNodePort"))

\* updateWindowPort(id, port): sets the field of the entry.
UpdateWindowPort(st, id, port) ==
  Store(IF id \in DOMAIN st.info
        THEN [st.info EXCEPT ![id].windowPort = port] ELSE st.info,
        Logged(st, id, "updateWindowPort"))

\* updateLog(id, text): appends the text to the entry's log.
UpdateLog(st, id, text) ==
  Store(IF id \in DOMAIN st.info
        THEN [st.info EXCEPT ![id].log = Append(@, text)] ELSE st.info,
        Logged(st, id, "updateLog"))

\* removeInstance(id): deletes the entry.
RemoveInstance(st, id) ==
  Store([j \in DOMAIN st.info \ {id} |-> st.info[j]],
        Logged(st, id, "removeInstance"))

(***************************************************************************)
(* startDebugging.                                                         *)
(***************************************************************************)
\* JavaScript truthiness of a port field: undefined and "" are falsy, every
\* other string (also "0") is truthy.
Truthy(v) == v # Unset /\ v # ""

NodeGuard_Always(instance) == TRUE
\* if (!instance.nodePort)
NodeGuard(instance) == ~Truthy(instance.nodePort)

WindowGuard_Always(instance) == TRUE
\* if (!instance.windowPort)
WindowGuard(instance) == ~Truthy(instance.windowPort)

HandleStdout_ReturnOnMatch(st, id, chunk) ==
  LET data == ChunkToString(chunk)
      instance == st.info[id]
  IN IF NodeGuard(instance) /\ NodeExec(data) # NoMatch
     THEN UpdateNodePort(st, id, NodeExec(data))
     ELSE IF WindowGuard(instance) /\ WindowExec(data) # NoMatch
          THEN UpdateWindowPort(st, id, WindowExec(data))
          ELSE UpdateLog(st, id, data)

\* The body of the handler returned by handleStdout(isError), run for the
\* closure's id on a store whose registry holds the entry.
HandleStdout(st, id, chunk) ==
  LET data == ChunkToString(chunk)
      instance == st.info[id]
      s1 == IF NodeGuard(instance) /\ NodeExec(data) # NoMatch
            THEN UpdateNodePort(st, id, NodeExec(data)) ELSE st
      s2 == IF WindowGuard(instance) /\ WindowExec(data) # NoMatch
            THEN UpdateWindowPort(s1, id, WindowExec(data)) ELSE s1
  IN UpdateLog(s2, id, data)

\* What spawn() yields: a running child; a child that failed to start and
\* whose stdio streams exist ('error', then 'close'); a child that failed to
\* start without stdio streams (sp.stdout is undefined).
Outcomes == {"spawned", "spawnError", "noStdio"}

V4_Reuse(id) == id = 1
\* v4(): an id not generated before (the ids are named in generation order).
V4(id) == id = Cardinality(generated) + 1

TotalHandled == LET RECURSIVE Sum(_)
                    Sum(n) == IF n = 0 THEN 0 ELSE Len(handled[n]) + Sum(n - 1)
                IN Sum(Len(proc))

DebugInit ==
  /\ instanceInfo = <<>>
  /\ generated = {}
  /\ proc = <<>>
  /\ ops = [j \in Ids |-> <<>>]
  /\ handled = <<>>
  /\ threw = FALSE

\* startDebugging(app, store): spawn, v4, addInstance, then the listeners.
\* With sp.stdout undefined, sp.stdout.on throws and no listener is attached.
StartDebugging(app, id, outcome) ==
  /\ Len(proc) < MaxLaunches
  /\ V4(id)
  /\ LET st == AddInstance(Store(instanceInfo, ops), id, app.id)
     IN /\ instanceInfo' = st.info
        /\ ops' = st.trace
  /\ generated' = generated \cup {id}
  /\ proc' = Append(proc, [id |-> id, app |-> app.id,
                           status |-> IF outcome = "spawned" THEN "running" ELSE "failing",
                           attached |-> outcome # "noStdio"])
  /\ handled' = Append(handled, <<>>)
  /\ UNCHANGED threw

\* A 'data' event of sp.stdout (isError = FALSE) or sp.stderr (TRUE).  The
\* streams deliver until 'close'.
Data(l, isError, chunk) ==
  /\ l \in 1..Len(proc)
  /\ proc[l].status \in {"running", "exited"}
  /\ proc[l].attached
  /\ TotalHandled < MaxChunks
  /\ handled' = [handled EXCEPT ![l] = Append(@, [isError |-> isError, chunk |-> chunk])]
  /\ IF proc[l].id \in DOMAIN instanceInfo
     THEN LET st == HandleStdout(Store(instanceInfo, ops), proc[l].id, chunk)
          IN /\ instanceInfo' = st.info
             /\ ops' = st.trace
             /\ UNCHANGED threw
     ELSE \* instance is undefined: instance.nodePort throws a TypeError
          /\ threw' = TRUE
          /\ UNCHANGED <<instanceInfo, ops>>
  /\ UNCHANGED <<generated, proc>>

ProcExit_Removes(l) ==
  /\ l \in 1..Len(proc)
  /\ proc[l].status = "running"
  /\ proc' = [proc EXCEPT ![l].status = "exited"]
  /\ LET st == RemoveInstance(Store(instanceInfo, ops), proc[l].id)
     IN /\ instanceInfo' = st.info
        /\ ops' = st.trace
  /\ UNCHANGED <<generated, handled, threw>>

\* The child process ends (exit code or signal); no 'exit' listener exists.
ProcExit(l) ==
  /\ l \in 1..Len(proc)
  /\ proc[l].status = "running"
  /\ proc' = [proc EXCEPT ![l].status = "exited"]
  /\ UNCHANGED <<instanceInfo, generated, ops, handled, threw>>

\* The 'error' event of a failed spawn.  sp.on('error', () => { /* TODO */ })
\* dispatches nothing; without the listener nothing is dispatched either.
OnError(l) ==
  /\ l \in 1..Len(proc)
  /\ proc[l].status = "failing"
  /\ proc' = [proc EXCEPT ![l].status = "errored"]
  /\ UNCHANGED <<instanceInfo, generated, ops, handled, threw>>

OnClose_NoRemove(l) ==
  /\ l \in 1..Len(proc)
  /\ proc[l].status \in {"exited", "errored"}
  /\ proc' = [proc EXCEPT ![l].status = "closed"]
  /\ UNCHANGED <<instanceInfo, generated, ops, handled, threw>>

\* sp.on('close', code => store.dispatch(removeInstance(id))); the event is
\* emitted once, after the process has ended and its streams are closed.
OnClose(l) ==
  /\ l \in 1..Len(proc)
  /\ proc[l].status \in {"exited", "errored"}
  /\ proc' = [proc EXCEPT ![l].status = "closed"]
  /\ IF proc[l].attached
     THEN LET st == RemoveInstance(Store(instanceInfo, ops), proc[l].id)
          IN /\ instanceInfo' = st.info
             /\ ops' = st.trace
                ELSE UNCHANGED <<instanceInfo, ops>>
  /\ UNCHANGED <<generated, handled, threw>>

AppInfos == {[id |-> a] : a \in Apps}

(***************************************************************************)
(* Properties of the debug instance manager.                               *)
(***************************************************************************)
Launches == 1..Len(proc)
Present(j) == j \in DOMAIN instanceInfo
Texts(l) == [k \in 1..Len(handled[l]) |-> ChunkToString(handled[l][k].chunk)]
CountOp(j, op) == Cardinality({k \in 1..Len(ops[j]) : ops[j][k] = op})

\* C1: once nodePort (resp. windowPort) of an instance is set, no step
\* changes or clears it while the instance stays in the registry.
C1_PortsNeverOverwritten ==
  [][\A j \in Ids :
       (j \in DOMAIN instanceInfo /\ j \in DOMAIN instanceInfo') =>
         /\ instanceInfo[j].nodePort # Unset =>
              instanceInfo'[j].nodePort = instanceInfo[j].nodePort
         /\ instanceInfo[j].windowPort # Unset =>
              instanceInfo'[j].windowPort = instanceInfo[j].windowPort]_dvars

\* A later chunk announced a different node port; the field holds the first.
C1_Witness ==
  \E l \in Launches :
    /\ Present(proc[l].id)
    /\ Len(handled[l]) >= 2
    /\ NodeExec(Texts(l)[1]) # NoMatch
    /\ NodeExec(Texts(l)[2]) \notin {NoMatch, NodeExec(Texts(l)[1])}
    /\ instanceInfo[proc[l].id].nodePort = NodeExec(Texts(l)[1])

\* C2: a launch whose process exits is eventually absent from the registry,
\* and removeInstance is dispatched at most once for an id.
C2_ExitRemovesOnce ==
  /\ \A l \in 1..MaxLaunches :
       (l \in Launches /\ proc[l].status = "exited")
         ~> (l \in Launches /\ ~Present(proc[l].id))
  /\ [](\A j \in Ids : CountOp(j, "removeInstance") <= 1)

C2_Witness ==
  \E l \in Launches :
    /\ proc[l].status = "closed"
    /\ proc[l].attached
    /\ Len(handled[l]) > 0
    /\ ~Present(proc[l].id)
    /\ CountOp(proc[l].id, "removeInstance") = 1

\* C3: a launch whose spawn failed is eventually absent from the registry.
C3_FailedSpawnRemoved ==
  \A l \in 1..MaxLaunches :
    (l \in Launches /\ proc[l].status = "failing")
      ~> (l \in Launches /\ ~Present(proc[l].id))

\* C4: the log of an instance is the text of every chunk its handlers were
\* invoked with, in invocation order, and each chunk gave one updateLog.
C4_LogIsChunksInOrder ==
  \A l \in Launches :
    /\ CountOp(proc[l].id, "updateLog") = Len(handled[l])
    /\ Present(proc[l].id) => instanceInfo[proc[l].id].log = Texts(l)

\* Two chunks of different streams, one of them matching a port pattern.
C4_Witness ==
  \E l \in Launches :
    /\ Present(proc[l].id)
    /\ Len(handled[l]) = 2
    /\ handled[l][1].isError # handled[l][2].isError
    /\ NodeExec(Texts(l)[1]) # NoMatch
    /\ NodeExec(Texts(l)[2]) = NoMatch /\ WindowExec(Texts(l)[2]) = NoMatch
    /\ Len(instanceInfo[proc[l].id].log) = 2

RECURSIVE FirstCapture(_, _, _)
FirstCapture(pre, texts, k) ==
  IF k > Len(texts) THEN Unset
  ELSE IF ExecFrom(pre, texts[k], 1) # NoMatch THEN ExecFrom(pre, texts[k], 1)
       ELSE FirstCapture(pre, texts, k + 1)

\* C5: each port holds the capture of the first chunk, of either stream,
\* that matches its own pattern, and is unset when no chunk matched it.
C5_PortFromFirstMatch ==
  \A l \in Launches :
    Present(proc[l].id) =>
      /\ instanceInfo[proc[l].id].nodePort = FirstCapture(NodePrefix, Texts(l), 1)
      /\ instanceInfo[proc[l].id].windowPort = FirstCapture(DevPrefix, Texts(l), 1)

\* A non-matching stdout chunk, then a node announcement on stderr: the node
\* port is set, the window port is not.
C5_Witness ==
  \E l \in Launches :
    /\ Present(proc[l].id)
    /\ Len(handled[l]) = 2
    /\ ~handled[l][1].isError /\ handled[l][2].isError
    /\ NodeExec(Texts(l)[1]) = NoMatch
    /\ NodeExec(Texts(l)[2]) # NoMatch /\ WindowExec(Texts(l)[2]) = NoMatch
    /\ instanceInfo[proc[l].id].nodePort = NodeExec(Texts(l)[2])
    /\ instanceInfo[proc[l].id].windowPort = Unset

WellOrdered(s) ==
  s # <<>> =>
    /\ s[1] = "addInstance"
    /\ \A k \in 2..Len(s) : s[k] # "addInstance"
    /\ \A k \in 1..(Len(s) - 1) : s[k] # "removeInstance"

\* C6: for every id the dispatched operations are addInstance, then updates,
\* then removeInstance; no data handler runs on an absent entry.
C6_AddUpdatesRemove ==
  /\ ~threw
  /\ \A j \in Ids : WellOrdered(ops[j])

C6_Witness ==
  \E j \in Ids :
    /\ Len(ops[j]) >= 4
    /\ ops[j][Len(ops[j])] = "removeInstance"
    /\ \E k \in 1..Len(ops[j]) : ops[j][k] = "updateNodePort"

\* Whether the registry entry of j differs between two registries.
EntryDiffers(a, b, j) ==
  \/ (j \in DOMAIN a) # (j \in DOMAIN b)
  \/ j \in DOMAIN a /\ j \in DOMAIN b /\ a[j] # b[j]

\* C9: launches have pairwise distinct ids, and a step changes the registry
\* entry of an id only when it is a step of the launch that owns the id.
C9_InstancesIsolated ==
  [][/\ \A l1, l2 \in 1..Len(proc') : proc'[l1].id = proc'[l2].id => l1 = l2
     /\ \A j \in Ids :
          EntryDiffers(instanceInfo, instanceInfo', j) =>
            \E l \in 1..Len(proc') :
              /\ proc'[l].id = j
              /\ \/ l > Len(proc)
                 \/ handled'[l] # handled[l]
                 \/ proc'[l].status # proc[l].status]_dvars

\* Two live launches of one descriptor; only one of them has received output.
C9_Witness ==
  \E l1, l2 \in Launches :
    /\ l1 # l2
    /\ proc[l1].app = proc[l2].app
    /\ Present(proc[l1].id) /\ Present(proc[l2].id)
    /\ Len(instanceInfo[proc[l1].id].log) = 2
    /\ instanceInfo[proc[l2].id].log = <<>>
    /\ instanceInfo[proc[l1].id].nodePort # Unset
    /\ instanceInfo[proc[l2].id].nodePort = Unset

(***************************************************************************)
(* App discovery: getPossibleAppPaths, getAppInfo, getElectronApps.        *)
(***************************************************************************)
MaxCands == 3

Platforms == {"win32", "darwin", "linux"}

File(name, base, isExe, keywords, subAsar) ==
  [name |-> name, base |-> base, isExe |-> isExe, keywords |-> keywords, subAsar |-> subAsar]

\* What the filesystem holds at a candidate path under the win32 roots:
\* whether readdir succeeds, whether resources/electron.asar exists, and the
\* directory's entries (name, basename without '.exe', whether the name ends
\* with '.exe', the keywords its lower-cased name includes, whether
\* <entry>/resources/electron.asar exists).
WinCatalog ==
  { [path |-> "c:/Program Files/Acme", readdir |-> "ok", rootAsar |-> TRUE,
     files |-> << File("Acme Updater.exe", "Acme Updater", TRUE, {"update"}, FALSE),
                  File("Acme.exe", "Acme", TRUE, {}, FALSE),
                  File("Uninstall Acme.exe", "Uninstall Acme", TRUE, {"uninstall"}, FALSE) >>],
    [path |-> "~/AppData/Local/Tool", readdir |-> "ok", rootAsar |-> FALSE,
     files |-> << File("Tool.exe", "Tool", TRUE, {}, FALSE),
                  File("app-1.0.0", "app-1.0.0", FALSE, {}, TRUE) >>],
    [path |-> "c:/Program Files/Plain", readdir |-> "ok", rootAsar |-> FALSE,
     files |-> << File("plain.exe", "plain", TRUE, {}, FALSE) >>],
    [path |-> "c:/Program Files/Helper", readdir |-> "ok", rootAsar |-> TRUE,
     files |-> << File("Update.exe", "Update", TRUE, {"update"}, FALSE) >>],
    [path |-> "c:/Program Files/desktop.ini", readdir |-> "ENOTDIR", rootAsar |-> FALSE,
     files |-> <<>>],
    [path |-> "c:/Program Files/Locked", readdir |-> "EPERM", rootAsar |-> FALSE,
     files |-> <<>>] }

\* What the filesystem holds at a candidate path under /Applications: whether
\* the Electron framework exists, the state of Contents/Info.plist and its
\* fields, and what reading the icon file yields.
DarwinCatalog ==
  { [path |-> "/Applications/Acme.app", framework |-> TRUE, plist |-> "ok",
     bundleId |-> "com.acme.app", name |-> "Acme", exe |-> "Acme", icns |-> "png"],
    [path |-> "/Applications/Acme Beta.app", framework |-> TRUE, plist |-> "ok",
     bundleId |-> "com.acme.app", name |-> "Acme Beta", exe |-> "Acme", icns |-> "other"],
    [path |-> "/Applications/Other.app", framework |-> TRUE, plist |-> "ok",
     bundleId |-> "com.other.app", name |-> "Other", exe |-> "other", icns |-> "png"],
    [path |-> "/Applications/Safari.app", framework |-> FALSE, plist |-> "ok",
     bundleId |-> "com.apple.Safari", name |-> "Safari", exe |-> "Safari", icns |-> "other"],
    [path |-> "/Applications/Broken.app", framework |-> TRUE, plist |-> "ENOENT",
     bundleId |-> "", name |-> "", exe |-> "", icns |-> "png"],
    [path |-> "/Applications/Garbled.app", framework |-> TRUE, plist |-> "unparsable",
     bundleId |-> "", name |-> "", exe |-> "", icns |-> "png"],
    [path |-> "/Applications/NoIcon.app", framework |-> TRUE, plist |-> "ok",
     bundleId |-> "com.noicon.app", name |-> "NoIcon", exe |-> "NoIcon", icns |-> "empty"] }

Catalog(pf) ==
  IF pf = "win32" THEN WinCatalog ELSE IF pf = "darwin" THEN DarwinCatalog ELSE {}

NoInfo == [id |-> 0, name |-> "", icon |-> "", appPath |-> "", exePath |-> <<>>]
Returned(info) == [kind |-> "info", info |-> info]
ReturnedNone == [kind |-> "none", info |-> NoInfo]
Thrown == [kind |-> "throws", info |-> NoInfo]

\* files.filter(...): the '.exe' entries without an exclusion keyword.
RECURSIVE ExeFiles(_, _)
ExeFiles(files, n) ==
  IF n > Len(files) THEN <<>>
  ELSE IF files[n].isExe /\ files[n].keywords \cap {"uninstall", "update"} = {}
       THEN <<files[n]>> \o ExeFiles(files, n + 1)
       ELSE ExeFiles(files, n + 1)

\* getAppInfo, case 'win32'; uuid is what v4() returns.
GetAppInfoWin32(cand, uuid) ==
  IF cand.readdir # "ok" THEN ReturnedNone   \* caught
  ELSE IF ~(cand.rootAsar \/ \E n \in 1..Len(cand.files) : cand.files[n].subAsar)
       THEN ReturnedNone
       ELSE IF ExeFiles(cand.files, 1) = <<>> THEN ReturnedNone
            ELSE LET exeFile == ExeFiles(cand.files, 1)[1]
                 IN Returned([id |-> uuid, name |-> exeFile.base, icon |-> "",
                              appPath |-> cand.path,
                              exePath |-> <<cand.path, exeFile.name>>])

\* The result of readIcnsAsImageUri on the candidate's icon file, when the
\* call returns.
IcnsUri(cand) == IF cand.icns = "png" THEN "data:image/png;base64,..." ELSE ""

\* getAppInfo, case 'darwin': nothing catches what readFile, plist.parse or
\* readIcnsAsImageUri throw.
GetAppInfoDarwin(cand) ==
  IF ~cand.framework THEN ReturnedNone
  ELSE IF cand.plist # "ok" THEN Thrown
       ELSE IF cand.icns = "empty" THEN Thrown
            ELSE Returned([id |-> cand.bundleId, name |-> cand.name, icon |-> IcnsUri(cand),
                           appPath |-> cand.path,
                           exePath |-> <<cand.path, "Contents/MacOS", cand.exe>>])

GetAppInfo(pf, cand, uuid) ==
  IF pf = "win32" THEN GetAppInfoWin32(cand, uuid)
  ELSE IF pf = "darwin" THEN GetAppInfoDarwin(cand)
       ELSE Thrown   \* 'platform not supported'

InfosPush_Replace(list, info) == <<info>>
\* infos.push(info)
InfosPush(list, info) == Append(list, info)

\* infos.reduce((a, b) => { a[b.id] = b; return a }, {})
RECURSIVE Reduce(_, _)
Reduce(list, a) ==
  IF list = <<>> THEN a
  ELSE LET b == Head(list)
       IN Reduce(Tail(list),
                 [j \in DOMAIN a \cup {b.id} |-> IF j = b.id THEN b ELSE a[j]])

Pending == [status |-> "pending", apps |-> <<>>]
Resolved(apps) == [status |-> "resolved", apps |-> apps]
Rejected == [status |-> "rejected", apps |-> <<>>]

VARIABLES
  platform,    \* process.platform
  listing,     \* the candidate paths readdir yields, in its order
  appPaths,    \* getElectronApps: appPaths
  scanIdx,     \* the position of the for-of loop
  infos,       \* getElectronApps: infos
  uuids,       \* how many ids v4() has returned during the scan
  scanPc,      \* "paths", "loop", "done"
  scanResult   \* what the promise of getElectronApps settles to

svars == <<platform, listing, appPaths, scanIdx, infos, uuids, scanPc, scanResult>>

\* The sequences of at most n distinct elements of S.
DistinctSeqs(S, n) ==
  UNION {{q \in [1..m -> S] : \A a, b \in 1..m : a # b => q[a] # q[b]} : m \in 0..n}

ScanInit ==
  /\ platform \in Platforms
  /\ listing \in DistinctSeqs(Catalog(platform), MaxCands)
  /\ appPaths = <<>>
  /\ scanIdx = 1
  /\ infos = <<>>
  /\ uuids = 0
  /\ scanPc = "paths"
  /\ scanResult = Pending

\* const appPaths = await getPossibleAppPaths()
GetPossibleAppPaths ==
  /\ scanPc = "paths"
  /\ appPaths' = IF platform \in {"win32", "darwin"} THEN listing ELSE <<>>
  /\ scanPc' = "loop"
  /\ UNCHANGED <<platform, listing, scanIdx, infos, uuids, scanResult>>

\* One iteration of the for-of loop: await getAppInfo(p), push when defined.
\* A rejection of getAppInfo rejects getElectronApps.
ScanStep ==
  /\ scanPc = "loop"
  /\ scanIdx <= Len(appPaths)
  /\ LET r == GetAppInfo(platform, appPaths[scanIdx], uuids + 1)
     IN /\ uuids' = IF r.kind = "info" /\ platform = "win32" THEN uuids + 1 ELSE uuids
        /\ IF r.kind = "throws"
           THEN /\ scanPc' = "done"
                /\ scanResult' = Rejected
                /\ UNCHANGED <<scanIdx, infos>>
           ELSE /\ infos' = IF r.kind = "info" THEN InfosPush(infos, r.info) ELSE infos
                /\ scanIdx' = scanIdx + 1
                /\ UNCHANGED <<scanPc, scanResult>>
  /\ UNCHANGED <<platform, listing, appPaths>>

\* return infos.reduce(...)
ScanReturn ==
  /\ scanPc = "loop"
  /\ scanIdx > Len(appPaths)
  /\ scanResult' = Resolved(Reduce(infos, <<>>))
  /\ scanPc' = "done"
  /\ UNCHANGED <<platform, listing, appPaths, scanIdx, infos, uuids>>


(***************************************************************************)
(* The icon extractor: readIcnsAsImageUri.  A Buffer is a sequence of      *)
(* bytes (0..255), indexed from offset 0.                                  *)
(***************************************************************************)
MaxEntries == 2
MaxIcons == 12

Byte(buf, off) == buf[off + 1]

\* The four bytes of a 32-bit big-endian two's-complement integer.
\* (\div rounds down and % is non-negative.)
Int32BE(v) ==
  << (v \div 16777216) % 256, (v \div 65536) % 256, (v \div 256) % 256, v % 256 >>

\* buf.readInt32BE(off) throws a RangeError unless 0 <= off <= length - 4.
InRange(buf, off) == off >= 0 /\ off + 4 <= Len(buf)

\* buf.readInt32BE(off)
ReadInt32BE(buf, off) ==
  LET first == IF Byte(buf, off) >= 128 THEN Byte(buf, off) - 256 ELSE Byte(buf, off)
  IN first * 16777216 + Byte(buf, off + 1) * 65536
     + Byte(buf, off + 2) * 256 + Byte(buf, off + 3)

\* buf.slice(from, to): negative indexes count from the end, both are clamped.
Slice(buf, from, to) ==
  LET n == Len(buf)
      Clamp(x) == IF x < 0 THEN (IF x + n < 0 THEN 0 ELSE x + n)
                  ELSE (IF x > n THEN n ELSE x)
      a == Clamp(from)
      b == Clamp(to)
  IN IF b <= a THEN <<>> ELSE [k \in 1..(b - a) |-> buf[a + k]]

Magic == <<105, 99, 110, 115>>       \* "icns"
TypeTag == <<105, 99, 48, 55>>       \* "ic07"
PngPayload == <<137, 80, 78, 71>>    \* "\x89PNG"
OtherPayload == <<74, 70, 73, 70>>   \* "JFIF"
PNG == <<80, 78, 71>>                \* 'PNG'

\* The entries a file may hold: a declared length (also zero, negative, or
\* different from the bytes present) and the payload bytes.
DeclaredSizes == {-8, 0, 8, 12}
Payloads == {<<>>, PngPayload, OtherPayload}
EntryBytes(e) == TypeTag \o Int32BE(e.size) \o e.data
EntrySpecs == [size : DeclaredSizes, data : Payloads]

RECURSIVE Concat(_)
Concat(list) == IF list = <<>> THEN <<>> ELSE Head(list) \o Concat(Tail(list))

\* The files: a header whose length field is the file length or 8, then the
\* entries.
IcnsBodies ==
  UNION { {Concat([k \in 1..m |-> EntryBytes(es[k])]) : es \in [1..m -> EntrySpecs]} :
          m \in 0..MaxEntries }

IcnsFiles ==
  { Magic \o Int32BE(IF exact THEN 8 + Len(body) ELSE 8) \o body :
      exact \in BOOLEAN, body \in IcnsBodies }

\* imageData.toString('base64'): the sextets of the bytes, three bytes to
\* four sextets, and the number of '=' that pad the last group.
RECURSIVE Base64(_)
Base64(bytes) ==
  IF bytes = <<>> THEN [sextets |-> <<>>, pad |-> 0]
  ELSE IF Len(bytes) = 1
       THEN [sextets |-> << bytes[1] \div 4, (bytes[1] % 4) * 16 >>, pad |-> 2]
       ELSE IF Len(bytes) = 2
            THEN [sextets |-> << bytes[1] \div 4,
                                 (bytes[1] % 4) * 16 + bytes[2] \div 16,
                                 (bytes[2] % 16) * 4 >>, pad |-> 1]
            ELSE LET rest == Base64(SubSeq(bytes, 4, Len(bytes)))
                 IN [sextets |-> << bytes[1] \div 4,
                                    (bytes[1] % 4) * 16 + bytes[2] \div 16,
                                    (bytes[2] % 16) * 4 + bytes[3] \div 64,
                                    bytes[3] % 64 >> \o rest.sextets,
                     pad |-> rest.pad]

\* icons.sort((a, b) => b.size - a.size); icons[0]: the first entry of the
\* largest size (the sort is stable).
Largest(list) ==
  LET best == CHOOSE k \in 1..Len(list) :
                /\ \A j \in 1..Len(list) : list[j].size <= list[k].size
                /\ \A j \in 1..(k - 1) : list[j].size < list[k].size
  IN list[best]

NoResult == [uri |-> "<pending>", base64 |-> Base64(<<>>)]

VARIABLES
  file,        \* the bytes readFile yields
  buf,         \* buf
  totalSize,   \* totalSize
  start,       \* start
  icons,       \* icons (the first MaxIcons entries pushed)
  icnsPc,      \* "read", "loop", "done", "threw"
  icnsResult   \* the value returned

ivars == <<file, buf, totalSize, start, icons, icnsPc, icnsResult>>

IcnsInit ==
  /\ file \in IcnsFiles
  /\ buf = <<>>
  /\ totalSize = 0
  /\ start = 0
  /\ icons = <<>>
  /\ icnsPc = "read"
  /\ icnsResult = NoResult

\* buf = await readFile(file); totalSize = buf.readInt32BE(4) - 8;
\* buf = buf.slice(8); icons = []; start = 0
IcnsRead ==
  /\ icnsPc = "read"
  /\ IF InRange(file, 4)
     THEN /\ totalSize' = ReadInt32BE(file, 4) - 8
          /\ buf' = Slice(file, 8, Len(file))
          /\ icnsPc' = "loop"
     ELSE /\ icnsPc' = "threw"
          /\ UNCHANGED <<totalSize, buf>>
  /\ UNCHANGED <<file, start, icons, icnsResult>>

\* One iteration of while (start < totalSize).
IcnsLoop ==
  /\ icnsPc = "loop"
  /\ start < totalSize
  /\ IF InRange(buf, start + 4)
     THEN LET type == Slice(buf, start, start + 4)
              size == ReadInt32BE(buf, start + 4)
              data == Slice(buf, start + 8, start + size)
          IN /\ icons' = IF Len(icons) < MaxIcons
                         THEN Append(icons, [type |-> type, size |-> size, data |-> data])
                         ELSE icons
             /\ start' = start + size
             /\ UNCHANGED icnsPc
     ELSE \* readInt32BE throws a RangeError
          /\ icnsPc' = "threw"
          /\ UNCHANGED <<icons, start>>
  /\ UNCHANGED <<file, buf, totalSize, icnsResult>>

\* After the loop: sort, icons[0].data, the 'PNG' test, the data URI.
IcnsSelect ==
  /\ icnsPc = "loop"
  /\ start >= totalSize
  /\ IF icons = <<>>
     THEN \* icons[0] is undefined: a TypeError
          /\ icnsPc' = "threw"
          /\ UNCHANGED icnsResult
     ELSE LET imageData == Largest(icons).data
          IN /\ icnsResult' = IF Slice(imageData, 1, 4) = PNG
                               THEN [uri |-> "data:image/png;base64,",
                                     base64 |-> Base64(imageData)]
                               ELSE [uri |-> "", base64 |-> Base64(<<>>)]
             /\ icnsPc' = "done"
  /\ UNCHANGED <<file, buf, totalSize, start, icons>>


(***************************************************************************)
(* The specifications.  Each runs one of the three parts; the variables of *)
(* the other two stay at rest.                                             *)
(***************************************************************************)
vars == <<dvars, svars, ivars>>

ScanIdle ==
  /\ platform = "linux"
  /\ listing = <<>>
  /\ appPaths = <<>>
  /\ scanIdx = 1
  /\ infos = <<>>
  /\ uuids = 0
  /\ scanPc = "idle"
  /\ scanResult = Pending

IcnsIdle ==
  /\ file = <<>>
  /\ buf = <<>>
  /\ totalSize = 0
  /\ start = 0
  /\ icons = <<>>
  /\ icnsPc = "idle"
  /\ icnsResult = NoResult

Init == DebugInit /\ ScanIdle /\ IcnsIdle

\* The steps of the debug instance manager, its chunks drawn from CS.
NextOver(CS) ==
  \/ \E app \in AppInfos, id \in Ids, outcome \in Outcomes :
       StartDebugging(app, id, outcome) /\ UNCHANGED <<svars, ivars>>
  \/ \E l \in 1..MaxLaunches, isError \in BOOLEAN, chunk \in CS :
       Data(l, isError, chunk) /\ UNCHANGED <<svars, ivars>>
  \/ \E l \in 1..MaxLaunches : ProcExit(l) /\ UNCHANGED <<svars, ivars>>
  \/ \E l \in 1..MaxLaunches : OnError(l) /\ UNCHANGED <<svars, ivars>>
  \/ \E l \in 1..MaxLaunches : OnClose(l) /\ UNCHANGED <<svars, ivars>>

Next == NextOver(Chunks)

\* The debug instance manager.
Spec == Init /\ [][Next]_vars

\* The chunks of the lifecycle specification: one that matches a pattern and
\* one that matches none.
LifecycleChunks ==
  { <<Txt("hello"), Ann(NodePrefix, "9230", FALSE), BadBytes>>,
    <<Ann(NodePrefix, "9229", TRUE), Txt("abc")>> }

FairNext == NextOver(LifecycleChunks)

\* The lifecycle of the launches: Node's event loop delivers a pending
\* 'error' and a pending 'close' event.
FairSpec ==
  /\ Init /\ [][FairNext]_vars
  /\ \A l \in 1..MaxLaunches :
       /\ WF_vars(OnError(l) /\ UNCHANGED <<svars, ivars>>)
       /\ WF_vars(OnClose(l) /\ UNCHANGED <<svars, ivars>>)

\* The discovery scan.
InitScan == DebugInit /\ ScanInit /\ IcnsIdle

ScanNext ==
  \/ GetPossibleAppPaths /\ UNCHANGED <<dvars, ivars>>
  \/ ScanStep /\ UNCHANGED <<dvars, ivars>>
  \/ ScanReturn /\ UNCHANGED <<dvars, ivars>>

ScanSpec == InitScan /\ [][ScanNext]_vars

InitIcns == DebugInit /\ ScanIdle /\ IcnsInit

IcnsStep ==
  \/ IcnsRead /\ UNCHANGED <<dvars, svars>>
  \/ IcnsLoop /\ UNCHANGED <<dvars, svars>>
  \/ IcnsSelect /\ UNCHANGED <<dvars, svars>>

\* The icon extractor; the function runs on once called.
IcnsSpec == InitIcns /\ [][IcnsStep]_vars /\ WF_vars(IcnsStep)

(***************************************************************************)
(* Properties of the discovery scan.                                       *)
(***************************************************************************)
Valid(n) == GetAppInfo(platform, appPaths[n], 0).kind = "info"

\* Whether another valid candidate yields the same descriptor id.
Collides(n) ==
  /\ platform = "darwin"
  /\ \E m \in 1..Len(appPaths) :
       m # n /\ Valid(m) /\ appPaths[m].bundleId = appPaths[n].bundleId

\* C7: the scan resolves whatever a candidate holds, and the mapping has the
\* descriptor of every valid candidate (whose id no other candidate shares).
C7_BadCandidateSwallowed ==
  scanPc = "done" =>
    /\ scanResult.status = "resolved"
    /\ \A n \in 1..Len(appPaths) :
         (Valid(n) /\ ~Collides(n)) =>
           \E j \in DOMAIN scanResult.apps :
             scanResult.apps[j].appPath = appPaths[n].path

\* getElectronApps run to its end over the candidates in the order given.
RECURSIVE RunScan(_, _, _, _, _)
RunScan(pf, paths, k, list, n) ==
  IF k > Len(paths) THEN Resolved(Reduce(list, <<>>))
  ELSE LET r == GetAppInfo(pf, paths[k], n + 1)
       IN IF r.kind = "throws" THEN Rejected
          ELSE IF r.kind = "info"
               THEN RunScan(pf, paths, k + 1, InfosPush(list, r.info),
                            IF pf = "win32" THEN n + 1 ELSE n)
               ELSE RunScan(pf, paths, k + 1, list, n)

Reorderings(paths) ==
  { [k \in 1..Len(paths) |-> paths[f[k]]] :
      f \in {g \in [1..Len(paths) -> 1..Len(paths)] :
               \A a, b \in 1..Len(paths) : a # b => g[a] # g[b]} }

WithoutId(d) == [name |-> d.name, icon |-> d.icon, appPath |-> d.appPath, exePath |-> d.exePath]

\* Two results are the same mapping; on win32, where every id is a fresh
\* uuid, the same descriptors up to their ids.
SameMapping(pf, r1, r2) ==
  /\ r1.status = r2.status
  /\ IF pf = "win32"
     THEN {WithoutId(r1.apps[j]) : j \in DOMAIN r1.apps}
            = {WithoutId(r2.apps[j]) : j \in DOMAIN r2.apps}
     ELSE /\ DOMAIN r1.apps = DOMAIN r2.apps
          /\ \A j \in DOMAIN r1.apps : r1.apps[j] = r2.apps[j]

OrderIndependent ==
  \A q \in Reorderings(appPaths) :
    SameMapping(platform, RunScan(platform, q, 1, <<>>, 0), scanResult)

\* C8 as stated: the result of the scan is the result of the scan over the
\* candidates in any other order.
C8_OrderIndependent == scanPc = "done" => OrderIndependent

DistinctIds ==
  \A n \in 1..Len(appPaths) : Valid(n) => ~Collides(n)

\* C8 as amended: the same, for candidates whose descriptor ids are pairwise
\* distinct.
C8_OrderIndependentDistinctIds ==
  (scanPc = "done" /\ DistinctIds) => OrderIndependent

\* A finished scan over three candidates, two of them valid with distinct ids.
C8_Witness ==
  /\ scanPc = "done"
  /\ DistinctIds
  /\ scanResult.status = "resolved"
  /\ Len(appPaths) >= 3
  /\ Cardinality(DOMAIN scanResult.apps) = 2

(***************************************************************************)
(* Properties of the icon extractor.                                       *)
(***************************************************************************)
\* C10: the entry-parsing loop is eventually left.
C10_IcnsLoopExits == <>(icnsPc \in {"done", "threw"})
====
